---- MODULE Spec2Model ----
(***************************************************************************)
(* A model of parse_file_listings.py: the conversion of an indented file   *)
(* listing into full paths (process_file_listing) and the interactive      *)
(* character detection mode that curates a blocklist before running it.    *)
(*                                                                         *)
(* A Python str is modelled as a sequence of one-character strings, a list *)
(* as a sequence.  "NBSP" stands for the single character U+00A0 and       *)
(* "A^" for U+00C2.                                                        *)
(***************************************************************************)
EXTENDS Integers, Sequences, FiniteSets, TLC

VARIABLES
  \* args (the argparse.Namespace / Args object)
  file_listing_lines,      \* f.readlines() of args.input_file
  character_ignore_list,   \* args.character_ignore_list, as typed
  indent_level,            \* args.indent_level
  unix_separators,         \* args.unix_separators
  char_detect,             \* args.char_detect
  args_blocklist,          \* args.blocklist (<<>> while the attribute is absent)
  \* control
  pc,                      \* position of the script
  \* locals of process_file_listing
  ignore_chars, path_separator, path_stack, output_lines,
  n,                       \* number of lines the for loop has consumed
  starting_position, file_or_directory_name, current_directory_level,
  \* locals of character_detection_mode
  i, blocklist, current_ignore,
  detected_position,       \* starting_position of character_detection_mode
  current_char, key,
  \* history
  stack_levels,            \* for each segment of path_stack, the level of the entry that pushed it
  skipped_level,           \* some entry was deeper than the stack was long
  entries,                 \* level and name of every entry processed, in order
  runs,                    \* completed calls of process_file_listing
  run_outputs,             \* output_lines of every completed call, in order
  error_log                \* the strings logging.error reported as not decodable

vars == <<file_listing_lines, character_ignore_list, indent_level, unix_separators,
          char_detect, args_blocklist, pc, ignore_chars, path_separator, path_stack,
          output_lines, n, starting_position, file_or_directory_name,
          current_directory_level, i, blocklist, current_ignore, detected_position,
          current_char, key, stack_levels, skipped_level, entries, runs, run_outputs,
          error_log>>

args_vars == <<file_listing_lines, character_ignore_list, indent_level, unix_separators,
               char_detect>>

detect_vars == <<i, blocklist, current_ignore, detected_position, current_char, key>>

line_vars == <<starting_position, file_or_directory_name, current_directory_level>>

conversion_vars == <<ignore_chars, path_separator, path_stack, output_lines, n, line_vars,
                     stack_levels, skipped_level, entries, runs, run_outputs>>

-----------------------------------------------------------------------------
(* Bounds *)

MaxIndent == 2       \* leading spaces of a generated line
MaxLines == 3        \* lines of a generated listing
MaxLineLen == 3      \* characters of a generated free-form line
MaxBlocked == 2      \* characters of a generated blocklist
MaxDetectLines == 2  \* lines of a listing stepped through in detection mode
MaxRuns == 2         \* calls of process_file_listing with the same args
MaxDepth == 5        \* lines of a listing that descends one space per line

-----------------------------------------------------------------------------
(* Strings *)

\* the characters str.strip() and str.isspace() treat as whitespace
Whitespace == {" ", "\t", "\n", "\r", "\f", "NBSP"}

InStr(c, s) == \E k \in 1..Len(s) : s[k] = c

Min(a, b) == IF a < b THEN a ELSE b

Max(a, b) == IF a > b THEN a ELSE b

\* s[k:] for a 0-based k
SliceFrom(s, k) == SubSeq(s, k + 1, Len(s))

Last(s) == s[Len(s)]

RECURSIVE lstrip(_)
lstrip(s) ==
  IF s # <<>> /\ Head(s) \in Whitespace THEN lstrip(Tail(s)) ELSE s

RECURSIVE rstrip(_)
rstrip(s) ==
  IF s # <<>> /\ s[Len(s)] \in Whitespace THEN rstrip(SubSeq(s, 1, Len(s) - 1)) ELSE s

\* strip() that leaves the end of the string alone
strip_left_only(s) == lstrip(s)

\* str.strip()
strip(s) == rstrip(lstrip(s))

\* str.replace(ch, "", 1): the first occurrence only
RECURSIVE replace_first_only(_, _)
replace_first_only(s, ch) ==
  IF s = <<>> THEN <<>>
  ELSE IF Head(s) = ch THEN Tail(s)
  ELSE <<Head(s)>> \o replace_first_only(Tail(s), ch)

\* str.replace(ch, "") for a one-character ch
RECURSIVE replace_with_empty(_, _)
replace_with_empty(s, ch) ==
  IF s = <<>> THEN <<>>
  ELSE IF Head(s) = ch THEN replace_with_empty(Tail(s), ch)
  ELSE <<Head(s)>> \o replace_with_empty(Tail(s), ch)

\* separator.join(list)
RECURSIVE join(_, _)
join(sep, list) ==
  IF list = <<>> THEN <<>>
  ELSE IF Len(list) = 1 THEN list[1]
  ELSE list[1] \o sep \o join(sep, Tail(list))

-----------------------------------------------------------------------------
(* parse_unicode_string: codecs.decode(string, 'unicode_escape') *)

HexDigit == {"0", "1", "2", "3", "4", "5", "6", "7", "8", "9",
             "A", "B", "C", "D", "E", "F"}

\* the code points the model's alphabet names
CharOfHex(h) ==
  IF h = <<"0", "0", "2", "0">> THEN " "
  ELSE IF h = <<"0", "0", "0", "9">> THEN "\t"
  ELSE IF h = <<"0", "0", "A", "0">> THEN "NBSP"
  ELSE "OTHER"

\* [ok |-> the string decodes, val |-> the decoded string], for the escapes
\* \t, \n, \\ and \uXXXX; the model's inputs hold no \x, \U, \N or octal escape
RECURSIVE unicode_escape_decode(_)
unicode_escape_decode(s) ==
  IF s = <<>> THEN [ok |-> TRUE, val |-> <<>>]
  ELSE IF Head(s) = "NBSP"
    \* a str is encoded as UTF-8 and its bytes are read as Latin-1
    THEN LET rest == unicode_escape_decode(Tail(s))
         IN [ok |-> rest.ok, val |-> <<"A^", "NBSP">> \o rest.val]
  ELSE IF Head(s) # "\\"
    THEN LET rest == unicode_escape_decode(Tail(s))
         IN [ok |-> rest.ok, val |-> <<Head(s)>> \o rest.val]
  ELSE IF Len(s) = 1
    THEN [ok |-> FALSE, val |-> <<>>]                 \* \ at end of string
  ELSE IF s[2] = "u"
    THEN IF Len(s) >= 6 /\ \A k \in 3..6 : s[k] \in HexDigit
         THEN LET rest == unicode_escape_decode(SliceFrom(s, 6))
              IN [ok |-> rest.ok, val |-> <<CharOfHex(SubSeq(s, 3, 6))>> \o rest.val]
         ELSE [ok |-> FALSE, val |-> <<>>]            \* truncated \uXXXX escape
  ELSE LET rest == unicode_escape_decode(SliceFrom(s, 2))
           c == IF s[2] = "t" THEN <<"\t">>
                ELSE IF s[2] = "n" THEN <<"\n">>
                ELSE IF s[2] = "\\" THEN <<"\\">>
                ELSE <<"\\", s[2]>>     \* no escape starts with s[2]: both are kept
       IN [ok |-> rest.ok, val |-> c \o rest.val]

\* without the except branch's "return string": what was decoded before the error
parse_unicode_string_decoded_part(string) == unicode_escape_decode(string).val

parse_unicode_string(string) ==
  LET decoded == unicode_escape_decode(string)
  IN IF decoded.ok THEN decoded.val ELSE string

\* what the except branch hands to logging.error: one report for a string that
\* does not decode, none otherwise
logged_error(string) ==
  IF unicode_escape_decode(string).ok THEN <<>> ELSE <<string>>

-----------------------------------------------------------------------------
(* find_file_or_directory_name_start_position *)

\* the loop without its early return: every ignored character of the line counts
RECURSIVE count_every(_, _, _)
count_every(line, ignore_characters, count) ==
  IF line = <<>> THEN count
  ELSE count_every(Tail(line), ignore_characters,
                   IF InStr(Head(line), ignore_characters) THEN count + 1 ELSE count)

RECURSIVE count_from(_, _, _)
count_from(line, ignore_characters, count) ==
  IF count = Len(line) THEN count
  ELSE IF InStr(line[count + 1], ignore_characters)
    THEN count_from(line, ignore_characters, count + 1)
  ELSE count

find_file_or_directory_name_start_position(line, ignore_characters) ==
  count_from(line, ignore_characters, 0)

-----------------------------------------------------------------------------
(* process_file_listing *)

path_prefix == <<"C", ":">>

\* the base ignore list alone: the blocklist is left out
ignore_chars_without_blocklist(ignore_list, blist) == parse_unicode_string(ignore_list)

\* base ignore list plus the blocklist, when there is one
ignore_chars_of(ignore_list, blist) ==
  LET base_ignore == parse_unicode_string(ignore_list)
  IN IF blist # <<>> THEN base_ignore \o blist ELSE base_ignore

path_separator_of(unix) == IF unix THEN <<"/">> ELSE <<"\\">>

\* line == "": the line is not stripped first
is_skipped_empty_only(line) == line = <<>>

\* line.strip() == ""
is_skipped(line) == strip(line) = <<>>

RECURSIVE remove_blocked(_, _)
remove_blocked(name, blist) ==
  IF blist = <<>> THEN name
  ELSE remove_blocked(replace_with_empty(name, Head(blist)), Tail(blist))

\* line[starting_position:] without the strip(): the terminator stays in the name
name_of_unstripped(line, position, blist) ==
  remove_blocked(SliceFrom(line, position), blist)

\* line[starting_position:].strip() with the blocked characters removed
name_of(line, position, blist) ==
  remove_blocked(strip(SliceFrom(line, position)), blist)

\* int(starting_position / indent_level): true division, truncated towards zero
level_of(position, width) ==
  IF width > 0 THEN position \div width ELSE 0 - (position \div (0 - width))

\* list.pop()
pop(stack) == SubSeq(stack, 1, Len(stack) - 1)

\* an if in the place of the while: at most one pop
unwind_once(stack, level) ==
  IF level < Len(stack) - 1 /\ stack # <<>> THEN pop(stack) ELSE stack

\* while current_directory_level < len(path_stack) - 1: path_stack.pop()
RECURSIVE unwind(_, _)
unwind(stack, level) ==
  IF level < Len(stack) - 1 /\ stack # <<>> THEN unwind(pop(stack), level) ELSE stack

\* the if without "len(path_stack) - 1 != 0": the prefix is popped at depth 0
adjust_pops_prefix(stack, level) ==
  LET unwound == unwind(stack, level)
  IN IF level = Len(unwound) - 1 /\ unwound # <<>> THEN pop(unwound) ELSE unwound

\* the while loop alone: an entry never replaces its sibling
adjust_never_replaces(stack, level) == unwind(stack, level)

\* the if with >= in the place of ==: an entry deeper than the stack replaces
\* the last segment as a sibling would
adjust_replaces_when_deeper(stack, level) ==
  LET unwound == unwind(stack, level)
  IN IF level >= Len(unwound) - 1 /\ Len(unwound) - 1 # 0 /\ unwound # <<>>
     THEN pop(unwound)
     ELSE unwound

\* the while loop and the if that follows it
adjust(stack, level) ==
  LET unwound == unwind(stack, level)
  IN IF level = Len(unwound) - 1 /\ Len(unwound) - 1 # 0 /\ unwound # <<>>
     THEN pop(unwound)
     ELSE unwound

\* the while loop pops an empty list: IndexError
RECURSIVE unwind_raises(_, _)
unwind_raises(stack, level) ==
  IF level < Len(stack) - 1
  THEN IF stack = <<>> THEN TRUE ELSE unwind_raises(pop(stack), level)
  ELSE FALSE

\* the while loop or the if pops an empty list
adjust_raises(stack, level) ==
  IF unwind_raises(stack, level) THEN TRUE
  ELSE LET unwound == unwind(stack, level)
       IN level = Len(unwound) - 1 /\ Len(unwound) - 1 # 0 /\ unwound = <<>>

\* path_stack as a list made once and shared by every call: a later call goes
\* on from the stack the call before it left
Setup_keeps_path_stack ==
  /\ pc = "start"
  /\ ignore_chars' = ignore_chars_of(character_ignore_list, args_blocklist)
  /\ path_separator' = path_separator_of(unix_separators)
  /\ path_stack' = (IF path_stack = <<>> THEN <<path_prefix>> ELSE path_stack)
  /\ output_lines' = <<>>
  /\ n' = 0
  /\ stack_levels' = (IF path_stack = <<>> THEN <<-1>> ELSE stack_levels)
  /\ skipped_level' = FALSE
  /\ entries' = <<>>
  /\ error_log' = error_log \o logged_error(character_ignore_list)
  /\ pc' = "loop"
  /\ UNCHANGED <<args_vars, args_blocklist, line_vars, detect_vars, runs, run_outputs>>

Setup ==
  /\ pc = "start"
  /\ ignore_chars' = ignore_chars_of(character_ignore_list, args_blocklist)
  /\ path_separator' = path_separator_of(unix_separators)
  /\ path_stack' = <<path_prefix>>
  /\ output_lines' = <<>>
  /\ n' = 0
  /\ stack_levels' = <<-1>>
  /\ skipped_level' = FALSE
  /\ entries' = <<>>
  /\ error_log' = error_log \o logged_error(character_ignore_list)
  /\ pc' = "loop"
  /\ UNCHANGED <<args_vars, args_blocklist, line_vars, detect_vars, runs, run_outputs>>

SkipBlank ==
  /\ pc = "loop"
  /\ n < Len(file_listing_lines)
  /\ is_skipped(file_listing_lines[n + 1])
  /\ n' = n + 1
  /\ UNCHANGED <<args_vars, args_blocklist, pc, ignore_chars, path_separator, path_stack,
                 output_lines, line_vars, detect_vars, stack_levels, skipped_level, entries,
                 runs, run_outputs, error_log>>

\* the name of the line is found, the division fails
ZeroDivisionError ==
  /\ pc = "loop"
  /\ n < Len(file_listing_lines)
  /\ LET line == file_listing_lines[n + 1]
         position == find_file_or_directory_name_start_position(line, ignore_chars)
     IN /\ ~is_skipped(line)
        /\ indent_level = 0
        /\ starting_position' = position
        /\ file_or_directory_name' = name_of(line, position, args_blocklist)
  /\ pc' = "ZeroDivisionError"
  /\ UNCHANGED <<args_vars, args_blocklist, ignore_chars, path_separator, path_stack,
                 output_lines, n, current_directory_level, detect_vars, stack_levels,
                 skipped_level, entries, runs, run_outputs, error_log>>

\* the level is negative and the stack is popped until it is empty, and once more
IndexError ==
  /\ pc = "loop"
  /\ n < Len(file_listing_lines)
  /\ LET line == file_listing_lines[n + 1]
         position == find_file_or_directory_name_start_position(line, ignore_chars)
     IN /\ ~is_skipped(line)
        /\ indent_level # 0
        /\ adjust_raises(path_stack, level_of(position, indent_level))
        /\ starting_position' = position
        /\ file_or_directory_name' = name_of(line, position, args_blocklist)
        /\ current_directory_level' = level_of(position, indent_level)
        /\ path_stack' = unwind(path_stack, level_of(position, indent_level))
        /\ stack_levels' = SubSeq(stack_levels, 1, Len(path_stack'))
  /\ pc' = "IndexError"
  /\ UNCHANGED <<args_vars, args_blocklist, ignore_chars, path_separator, output_lines, n,
                 detect_vars, skipped_level, entries, runs, run_outputs, error_log>>

ProcessLine ==
  /\ pc = "loop"
  /\ n < Len(file_listing_lines)
  /\ LET line == file_listing_lines[n + 1]
         position == find_file_or_directory_name_start_position(line, ignore_chars)
         name == name_of(line, position, args_blocklist)
     IN /\ ~is_skipped(line)
        /\ indent_level # 0
        /\ ~adjust_raises(path_stack, level_of(position, indent_level))
        /\ starting_position' = position
        /\ file_or_directory_name' = name
        /\ current_directory_level' = level_of(position, indent_level)
        /\ path_stack' = Append(adjust(path_stack, level_of(position, indent_level)), name)
        /\ output_lines' = Append(output_lines, join(path_separator, path_stack'))
        /\ stack_levels' = Append(SubSeq(stack_levels, 1, Len(path_stack') - 1),
                                  level_of(position, indent_level))
        /\ skipped_level' = (skipped_level
                             \/ level_of(position, indent_level) > Len(path_stack))
        /\ entries' = Append(entries, [level |-> level_of(position, indent_level),
                                       name |-> name])
  /\ n' = n + 1
  /\ UNCHANGED <<args_vars, args_blocklist, pc, ignore_chars, path_separator, detect_vars,
                 runs, run_outputs, error_log>>

\* the joined output is printed or written
Finish ==
  /\ pc = "loop"
  /\ n = Len(file_listing_lines)
  /\ pc' = "done"
  /\ runs' = runs + 1
  /\ run_outputs' = Append(run_outputs, output_lines)
  /\ UNCHANGED <<args_vars, args_blocklist, ignore_chars, path_separator, path_stack,
                 output_lines, n, line_vars, detect_vars, stack_levels, skipped_level,
                 entries, error_log>>

-----------------------------------------------------------------------------
(* Listings *)

RECURSIVE Spaces(_)
Spaces(k) == IF k = 0 THEN <<>> ELSE <<" ">> \o Spaces(k - 1)

Names == {<<>>, <<"a">>, <<"b">>}

\* an indented name, or a blank line, as readlines() returns it
Lines == {Spaces(k) \o nm \o <<"\n">> : k \in 0..MaxIndent, nm \in Names}

GeneratedListings == UNION {[1..m -> Lines] : m \in 0..MaxLines}

ScenarioA ==
  << <<"r", "o", "o", "t", "\n">>,
     <<" ", " ", "c", "h", "i", "l", "d", "\n">>,
     <<" ", " ", " ", " ", "g", "r", "a", "n", "d", "c", "h", "i", "l", "d", "\n">>,
     <<" ", " ", "s", "i", "b", "l", "i", "n", "g", "\n">> >>

ScenarioB ==
  << <<"a", "\n">>,
     <<" ", " ", " ", " ", "d", "e", "e", "p", "\n">> >>

Listings == GeneratedListings \cup {ScenarioA, ScenarioB}

IgnoreLists == {<<" ">>, <<" ", "a">>}

IndentLevels == {-1, 0, 1, 2}

InitLocals ==
  /\ ignore_chars = <<>>
  /\ path_separator = <<>>
  /\ path_stack = <<>>
  /\ output_lines = <<>>
  /\ n = 0
  /\ starting_position = 0
  /\ file_or_directory_name = <<>>
  /\ current_directory_level = 0
  /\ i = 0
  /\ blocklist = <<>>
  /\ current_ignore = <<>>
  /\ detected_position = 0
  /\ current_char = "None"
  /\ key = ""
  /\ stack_levels = <<>>
  /\ skipped_level = FALSE
  /\ entries = <<>>
  /\ runs = 0
  /\ run_outputs = <<>>
  /\ error_log = <<>>

\* the script was started without --char-detect and has read the input file
Init ==
  /\ file_listing_lines \in Listings
  /\ character_ignore_list \in IgnoreLists
  /\ indent_level \in IndentLevels
  /\ unix_separators \in BOOLEAN
  /\ char_detect = FALSE
  /\ args_blocklist = <<>>
  /\ pc = "start"
  /\ InitLocals

Next ==
  \/ Setup
  \/ SkipBlank
  \/ ProcessLine
  \/ ZeroDivisionError
  \/ IndexError
  \/ Finish

Spec == Init /\ [][Next]_vars

-----------------------------------------------------------------------------
(* One-line listings of free-form lines, converted with a blocklist that     *)
(* character detection mode handed over                                      *)

LineChars == {" ", "\t", "a", ":"}

FreeText == UNION {[1..m -> LineChars] : m \in 0..MaxLineLen}

\* the lines of run_tests and the name of Scenario C
TestLines ==
  { <<" ", " ", " ", " ", "f", "i", "l", "e", "n", "a", "m", "e", ".", "t", "x", "t">>,
    <<"\t", "\t", "f", "o", "l", "d", "e", "r">>,
    <<"f", "i", "l", "e", "n", "a", "m", "e">>,
    <<"f", "i", "l", "e", ":", "v", "2", "\n">> }

\* a line ends with its terminator, the last line of a file need not
FreeLines == {t \o <<"\n">> : t \in FreeText} \cup (FreeText \ {<<>>}) \cup TestLines

LineIgnoreLists == {<<" ">>, <<" ", "\t">>, <<" ", ":">>, <<"\\", "t">>}

CharSet(s) == {s[k] : k \in 1..Len(s)}

\* what [b] can have accumulated: distinct characters outside the base ignore list
BlocklistsFor(ignore_list) ==
  LET blockable == (LineChars \cup {"\n"}) \ CharSet(parse_unicode_string(ignore_list))
  IN {b \in UNION {[1..m -> blockable] : m \in 0..MaxBlocked} :
        \A j, k \in 1..Len(b) : j # k => b[j] # b[k]}

InitLine ==
  /\ file_listing_lines \in {<<line>> : line \in FreeLines}
  /\ character_ignore_list \in LineIgnoreLists
  /\ indent_level \in {1, 2}
  /\ unix_separators = FALSE
  /\ char_detect = TRUE
  /\ args_blocklist \in BlocklistsFor(character_ignore_list)
  /\ pc = "start"
  /\ InitLocals

NextLine ==
  \/ Setup
  \/ SkipBlank
  \/ ProcessLine
  \/ Finish

SpecLine == InitLine /\ [][NextLine]_vars

-----------------------------------------------------------------------------
(* process_file_listing called again with the args of the call before        *)

\* the call returned; it is made once more with the same args
RunAgain ==
  /\ pc = "done"
  /\ runs < MaxRuns
  /\ pc' = "start"
  /\ UNCHANGED <<args_vars, args_blocklist, conversion_vars, detect_vars, error_log>>

InitRerun ==
  /\ file_listing_lines \in GeneratedListings
  /\ character_ignore_list = <<" ">>
  /\ indent_level \in {1, 2}
  /\ unix_separators = FALSE
  /\ char_detect \in BOOLEAN
  /\ args_blocklist \in (IF char_detect THEN {<<>>, <<"b">>} ELSE {<<>>})
  /\ pc = "start"
  /\ InitLocals

NextRerun ==
  \/ Setup
  \/ SkipBlank
  \/ ProcessLine
  \/ Finish
  \/ RunAgain

SpecRerun == InitRerun /\ [][NextRerun]_vars

-----------------------------------------------------------------------------
(* Listings that descend one space per line and then jump                    *)

LevelNames == <<"a", "b", "c", "d", "e", "f", "g">>

\* k leading spaces and a name
IndentedLine(k, nm) == Spaces(k) \o <<nm, "\n">>

\* the lines at 1, 2, .. k leading spaces, each with the name of its indent
Descent(k) == [j \in 1..k |-> IndentedLine(j, LevelNames[j])]

JumpLines == {IndentedLine(k, "x") : k \in 0..(MaxDepth + 1)} \cup {<<"\n">>}

JumpListings ==
  {Descent(k) \o <<first, second>> : k \in 0..MaxDepth, first \in JumpLines,
                                     second \in JumpLines}

InitJump ==
  /\ file_listing_lines \in JumpListings
  /\ character_ignore_list = <<" ">>
  /\ indent_level \in {1, 2}
  /\ unix_separators \in BOOLEAN
  /\ char_detect = FALSE
  /\ args_blocklist = <<>>
  /\ pc = "start"
  /\ InitLocals

SpecJump == InitJump /\ [][NextLine]_vars

-----------------------------------------------------------------------------
(* character_detection_mode *)

\* base_ignore + ''.join(blocklist)
current_ignore_of(ignore_list, blist) == parse_unicode_string(ignore_list) \o blist

\* the outer while loop without its "if line.strip() == ''": no line is passed over
next_shown_with_blank(lines, index) == index

\* the outer while loop passes over blank lines: the index it stops at
RECURSIVE next_shown(_, _)
next_shown(lines, index) ==
  IF index < Len(lines) /\ is_skipped(lines[index + 1])
  THEN next_shown(lines, index + 1)
  ELSE index

\* line[0] in the place of line[starting_position]
stop_char_at_line_start(line, position) ==
  IF position < Len(line) THEN line[1] ELSE "None"

\* line[starting_position], or None past the end of the line
stop_char(line, position) ==
  IF position < Len(line) THEN line[position + 1] ELSE "None"

\* list.remove(x): the first occurrence
RECURSIVE remove_first(_, _)
remove_first(list, x) ==
  IF list = <<>> THEN <<>>
  ELSE IF Head(list) = x THEN Tail(list)
  ELSE <<Head(list)>> \o remove_first(Tail(list), x)

\* the loops run from the cursor index with the blocklist blist up to the next
\* input(), or to the end of the listing
ShowPrompt(index, blist) ==
  LET shown == next_shown(file_listing_lines, index)
  IN /\ i' = shown
     /\ blocklist' = blist
     /\ IF shown < Len(file_listing_lines)
        THEN LET line == file_listing_lines[shown + 1]
                 ignore == current_ignore_of(character_ignore_list, blist)
                 position == find_file_or_directory_name_start_position(line, ignore)
             IN /\ current_ignore' = ignore
                /\ detected_position' = position
                /\ current_char' = stop_char(line, position)
                /\ pc' = "prompt"
        ELSE /\ pc' = "complete"
             /\ UNCHANGED <<current_ignore, detected_position, current_char>>

EnterDetection ==
  /\ pc = "detect"
  /\ ShowPrompt(0, <<>>)
  /\ error_log' = error_log \o logged_error(character_ignore_list)
  /\ UNCHANGED <<args_vars, args_blocklist, key, conversion_vars>>

KeyS ==
  /\ pc = "prompt"
  /\ key' = "s"
  /\ ShowPrompt(i + 1, blocklist)
  /\ UNCHANGED <<args_vars, args_blocklist, conversion_vars, error_log>>

KeyP ==
  /\ pc = "prompt"
  /\ key' = "p"
  /\ IF i > 0 THEN ShowPrompt(i - 1, blocklist) ELSE ShowPrompt(i, blocklist)
  /\ UNCHANGED <<args_vars, args_blocklist, conversion_vars, error_log>>

KeyB ==
  /\ pc = "prompt"
  /\ key' = "b"
  /\ IF current_char = "None" THEN ShowPrompt(i, blocklist)
     ELSE IF InStr(current_char, blocklist) THEN ShowPrompt(i, blocklist)
     ELSE ShowPrompt(i, Append(blocklist, current_char))
  /\ UNCHANGED <<args_vars, args_blocklist, conversion_vars, error_log>>

\* what the user may type at "Enter the character you want to unblock"
UnblockInputs == {<<":">>, <<"a">>, <<"\\", "n">>, <<":", "a">>}

KeyU ==
  /\ pc = "prompt"
  /\ key' = "u"
  /\ IF blocklist = <<>> THEN ShowPrompt(i, blocklist) /\ UNCHANGED error_log
     ELSE \E typed \in UnblockInputs :
            LET to_unblock == parse_unicode_string(strip(typed))
            IN /\ error_log' = error_log \o logged_error(strip(typed))
               /\ IF Len(to_unblock) = 1 /\ InStr(to_unblock[1], blocklist)
                  THEN ShowPrompt(i, remove_first(blocklist, to_unblock[1]))
                  ELSE ShowPrompt(i, blocklist)
  /\ UNCHANGED <<args_vars, args_blocklist, conversion_vars>>

\* args.blocklist = blocklist, then process_file_listing(args) reads the file again
KeyR ==
  /\ pc = "prompt"
  /\ key' = "r"
  /\ args_blocklist' = blocklist
  /\ pc' = "start"
  /\ UNCHANGED <<args_vars, i, blocklist, current_ignore, detected_position, current_char,
                 conversion_vars, error_log>>

KeyQ ==
  /\ pc = "prompt"
  /\ key' = "q"
  /\ pc' = "quit"
  /\ UNCHANGED <<args_vars, args_blocklist, i, blocklist, current_ignore, detected_position,
                 current_char, conversion_vars, error_log>>

KeyInvalid ==
  /\ pc = "prompt"
  /\ key' = "x"
  /\ ShowPrompt(i, blocklist)
  /\ UNCHANGED <<args_vars, args_blocklist, conversion_vars, error_log>>

DetectLines ==
  { <<"\n">>,
    <<"a", "\n">>,
    <<":", "a", "\n">>,
    <<" ", ":", "a", "\n">>,
    <<"a", " ", ":", "\n">>,
    <<":">> }

\* every line but the last ends with its terminator
GeneratedDetectListings ==
  {l \in UNION {[1..m -> DetectLines] : m \in 0..MaxDetectLines} :
     \A k \in 1..(Len(l) - 1) : Last(l[k]) = "\n"}

\* two entries with a blank line between them
BlankBetween == << <<"a", "\n">>, <<"\n">>, <<":", "a", "\n">> >>

DetectListings == GeneratedDetectListings \cup {BlankBetween}

\* the script was started with --char-detect and has read the input file
InitDetect ==
  /\ file_listing_lines \in DetectListings
  /\ character_ignore_list = <<" ">>
  /\ indent_level = 1
  /\ unix_separators = FALSE
  /\ char_detect = TRUE
  /\ args_blocklist = <<>>
  /\ pc = "detect"
  /\ InitLocals

NextDetect ==
  \/ EnterDetection
  \/ KeyS
  \/ KeyP
  \/ KeyB
  \/ KeyU
  \/ KeyR
  \/ KeyQ
  \/ KeyInvalid
  \/ Setup
  \/ SkipBlank
  \/ ProcessLine
  \/ Finish

SpecDetect == InitDetect /\ [][NextDetect]_vars

-----------------------------------------------------------------------------
(* Ignore lists as they are typed after -c, well-formed and malformed, in    *)
(* both modes                                                                *)

ConfigIgnoreLists ==
  { <<" ">>,
    <<"\\", "u", "0", "0", "2", "0">>,
    <<"\\", "u", "0", "0", "G", "0">>,     \* the string of test_parse_unicode_string_invalid
    <<"a", "\\">> }

ConfigLines ==
  { <<"\n">>,
    <<" ", "a", "\n">>,
    <<"u", "0", "a", "\n">>,
    <<"a", "\\", "b", "\n">> }

ConfigListings == UNION {[1..m -> ConfigLines] : m \in 0..MaxDetectLines}

InitConfig ==
  /\ file_listing_lines \in ConfigListings
  /\ character_ignore_list \in ConfigIgnoreLists
  /\ indent_level = 1
  /\ unix_separators = FALSE
  /\ char_detect \in BOOLEAN
  /\ args_blocklist = <<>>
  /\ pc = (IF char_detect THEN "detect" ELSE "start")
  /\ InitLocals

SpecConfig == InitConfig /\ [][NextDetect]_vars

-----------------------------------------------------------------------------
(* Properties of the conversion *)

IsBlank(line) == \A k \in 1..Len(line) : line[k] \in Whitespace

NonBlankCount(lines, upto) == Cardinality({k \in 1..upto : ~IsBlank(lines[k])})

Converting == pc \in {"loop", "done"}

\* a step of the for loop that emitted a path
EmitsPath == pc = "loop" /\ pc' = "loop" /\ Len(output_lines') = Len(output_lines) + 1

IsScenario(listing, width) ==
  /\ file_listing_lines = listing
  /\ character_ignore_list = <<" ">>
  /\ indent_level = width

\* C1: when the first entry is at depth 0, every entry at depth d+1 whose nearest
\* preceding shallower entry is at depth d (its parent, directly before it or
\* with only deeper entries in between) is emitted as the parent's output path,
\* the separator and its own name; Scenario A is the instance root, child,
\* grandchild, sibling.
C1_ChildUnderParent ==
  (indent_level > 0 /\ Converting /\ entries # <<>> /\ entries[1].level = 0) =>
    \A k \in 1..Len(entries), j \in 1..Len(entries) :
      (/\ k < j
       /\ entries[j].level = entries[k].level + 1
       /\ \A m \in (k + 1)..(j - 1) : entries[m].level > entries[k].level)
      => output_lines[j] = output_lines[k] \o path_separator \o entries[j].name

\* C2: with a positive indent width the conversion never fails on a pop, the
\* path stack is never empty, its first element is the prefix, and a first
\* entry at depth 0 leaves the stack [prefix, name].
C2_PrefixKept ==
  indent_level > 0 =>
    /\ pc \notin {"IndexError", "ZeroDivisionError"}
    /\ Converting =>
         /\ Len(path_stack) >= 1
         /\ path_stack[1] = path_prefix
         /\ (Len(entries) = 1 /\ entries[1].level = 0)
              => path_stack = <<path_prefix, entries[1].name>>

C2_Witness ==
  /\ indent_level > 0
  /\ Converting
  /\ Len(entries) >= 3
  /\ entries[1].level = 0
  /\ entries[Len(entries) - 1].level >= 2
  /\ entries[Len(entries)].level = 0

\* C3: consuming an empty or whitespace-only line changes neither the path
\* stack nor the output; every step leaves the output as it is or appends one
\* path to it; with a positive indent width the output holds one path per
\* non-blank line consumed, and an all-blank listing ends with no output.
C3_BlankLinesSkipped ==
  /\ [][(pc = "loop" /\ n < Len(file_listing_lines) /\ IsBlank(file_listing_lines[n + 1]))
          => UNCHANGED <<path_stack, output_lines>>]_vars
  /\ [][pc = "loop" =>
          \/ output_lines' = output_lines
          \/ /\ ~IsBlank(file_listing_lines[n + 1])
             /\ Len(output_lines') = Len(output_lines) + 1
             /\ SubSeq(output_lines', 1, Len(output_lines)) = output_lines]_vars
  /\ []((indent_level > 0 /\ Converting) =>
          /\ Len(output_lines) = NonBlankCount(file_listing_lines, n)
          /\ pc = "done" => n = Len(file_listing_lines))

C3_Witness ==
  /\ pc = "done"
  /\ indent_level > 0
  /\ Len(file_listing_lines) = 3
  /\ ~IsBlank(file_listing_lines[1])
  /\ IsBlank(file_listing_lines[2])
  /\ ~IsBlank(file_listing_lines[3])
  /\ Len(output_lines) = 2

\* C4: with an indent width of zero or less the conversion is rejected before
\* any line is processed: it does not fail part-way with an exception, the
\* path stack is never changed and no output path is produced.
C4_RejectedBeforeProcessing ==
  indent_level <= 0 =>
    /\ pc \notin {"ZeroDivisionError", "IndexError"}
    /\ path_stack \in {<<>>, <<path_prefix>>}
    /\ output_lines = <<>>

\* C5 as claimed: after every processed non-blank line the stack's length minus
\* one is the depth of that line.
C5_LengthIsDepth ==
  (indent_level > 0 /\ Converting /\ entries # <<>>) =>
    Len(path_stack) - 1 = current_directory_level

\* C5: processing a non-blank line leaves the stack's length minus one equal to
\* min(max(depth, 1), length of the stack before the line): the depth when it
\* is at least 1 and at most the previous length, 1 for an entry at depth 0,
\* the previous length for an entry deeper than that.
C5_LengthAfterLine ==
  [][(EmitsPath /\ indent_level > 0) =>
       Len(path_stack') - 1 = Min(Max(current_directory_level', 1), Len(path_stack))]_vars

C5_Witness ==
  /\ indent_level > 0
  /\ Converting
  /\ Len(entries) >= 2
  /\ entries[1].level = 0
  /\ current_directory_level = 2
  /\ Len(path_stack) = 3

\* C6 as claimed: after an entry at depth d the stack holds no segment pushed
\* by an earlier entry of depth d or more, forward jumps included.
C6_NoDeeperSegmentKept ==
  (indent_level > 0 /\ Converting /\ entries # <<>>) =>
    \A p \in 2..(Len(path_stack) - 1) : stack_levels[p] < current_directory_level

\* C6: as long as no entry was deeper than the path stack was long when it was
\* processed (no level was skipped), after an entry at depth d the stack holds
\* no segment pushed by an earlier entry of depth d or more.
C6_NoDeeperSegmentKeptWithoutSkip ==
  (indent_level > 0 /\ Converting /\ entries # <<>> /\ ~skipped_level) =>
    \A p \in 2..(Len(path_stack) - 1) : stack_levels[p] < current_directory_level

C6_Witness ==
  /\ indent_level > 0
  /\ Converting
  /\ ~skipped_level
  /\ Len(entries) = 3
  /\ entries[1].level = 1
  /\ entries[2].level = 2
  /\ entries[3].level = 2
  /\ Len(path_stack) = 3

\* C7 as claimed: Scenario B leaves the stack [prefix, "a", "", "deep"].
C7_EmptySegmentForSkippedLevel ==
  (IsScenario(ScenarioB, 2) /\ pc = "done") =>
    path_stack = <<path_prefix, <<"a">>, <<>>, <<"d", "e", "e", "p">> >>

\* C7: Scenario B leaves the stack [prefix, "a", "deep"]: the skipped level adds
\* no segment, and the second output path is prefix, separator, "a", separator,
\* "deep".
C7_NoSegmentForSkippedLevel ==
  (IsScenario(ScenarioB, 2) /\ pc = "done") =>
    /\ path_stack = <<path_prefix, <<"a">>, <<"d", "e", "e", "p">> >>
    /\ output_lines = << path_prefix \o path_separator \o <<"a">>,
                         path_prefix \o path_separator \o <<"a">> \o path_separator
                           \o <<"d", "e", "e", "p">> >>

C7_Witness == IsScenario(ScenarioB, 2) /\ pc = "done" /\ current_directory_level = 2

\* the smallest 0-based index of a character outside the ignore set, or the length
FirstNotIgnored(line, ignored) ==
  IF \A k \in 1..Len(line) : line[k] \in ignored THEN Len(line)
  ELSE CHOOSE k \in 0..(Len(line) - 1) :
         /\ line[k + 1] \notin ignored
         /\ \A j \in 1..k : line[j] \in ignored

\* s without its leading and trailing whitespace
Trimmed(s) ==
  IF IsBlank(s) THEN <<>>
  ELSE LET first == CHOOSE k \in 1..Len(s) :
                      s[k] \notin Whitespace /\ \A j \in 1..(k - 1) : s[j] \in Whitespace
           last == CHOOSE k \in 1..Len(s) :
                     s[k] \notin Whitespace /\ \A j \in (k + 1)..Len(s) : s[j] \in Whitespace
       IN SubSeq(s, first, last)

Without(s, removed) ==
  LET kept(c) == c \notin removed IN SelectSeq(s, kept)

LineProcessed == Converting /\ n = 1 /\ entries # <<>>

TheLine == file_listing_lines[1]

\* C8: for every line and ignore set the start position is the smallest index
\* whose character is not ignored, and the length of the line when every
\* character is ignored: 4 for four leading spaces, 2 for two leading tabs,
\* 0 when the line starts with its name.
C8_SmallestNotIgnoredIndex ==
  LineProcessed =>
    /\ starting_position = FirstNotIgnored(TheLine, CharSet(ignore_chars))
    /\ (TheLine = <<" ", " ", " ", " ", "f", "i", "l", "e", "n", "a", "m", "e", ".", "t", "x", "t">>
        /\ ignore_chars = <<" ", "\t">>) => starting_position = 4
    /\ (TheLine = <<"\t", "\t", "f", "o", "l", "d", "e", "r">>
        /\ ignore_chars = <<" ", "\t">>) => starting_position = 2
    /\ (TheLine = <<"f", "i", "l", "e", "n", "a", "m", "e">>
        /\ ignore_chars = <<" ", "\t">>) => starting_position = 0

C8_Witness ==
  /\ LineProcessed
  /\ Len(TheLine) = 3
  /\ starting_position = 1
  /\ InStr(TheLine[3], ignore_chars)

C8_WitnessAllIgnored ==
  LineProcessed /\ starting_position = Len(TheLine) /\ Len(TheLine) = 3

\* C9: the name pushed for a line is the trimmed substring from the boundary
\* index without any blocklisted character, wherever it stood in the name, so
\* the pushed name holds no blocklisted character; with ":" blocked the name
\* "file:v2" is pushed as "filev2".
C9_BlockedCharactersRemoved ==
  LineProcessed =>
    /\ Last(path_stack) =
         Without(Trimmed(SliceFrom(TheLine,
                                   FirstNotIgnored(TheLine, CharSet(ignore_chars)))),
                 CharSet(args_blocklist))
    /\ \A k \in 1..Len(Last(path_stack)) : Last(path_stack)[k] \notin CharSet(args_blocklist)
    /\ (TheLine = <<"f", "i", "l", "e", ":", "v", "2", "\n">> /\ args_blocklist = <<":">>)
         => Last(path_stack) = <<"f", "i", "l", "e", "v", "2">>

C9_Witness ==
  /\ LineProcessed
  /\ TheLine = <<"f", "i", "l", "e", ":", "v", "2", "\n">>
  /\ args_blocklist = <<":">>
  /\ Last(output_lines) = <<"C", ":", "\\", "f", "i", "l", "e", "v", "2">>

AnyKey == KeyS \/ KeyP \/ KeyB \/ KeyU \/ KeyR \/ KeyQ \/ KeyInvalid

\* C10: the conversion that [r] starts runs with exactly the blocklist
\* accumulated so far and with the ignore list the last prompt showed; the
\* start position it computes for a line is the one the prompt computes for
\* that line under that blocklist (for the line at the cursor, the position the
\* prompt displayed); when it is done no further prompt follows.
C10_PreviewMatchesConversion ==
  (char_detect /\ key = "r") =>
    /\ args_blocklist = blocklist
    /\ Converting =>
         /\ ignore_chars = current_ignore
         /\ (entries # <<>> /\ ~IsBlank(file_listing_lines[n])) =>
              /\ starting_position =
                   FirstNotIgnored(file_listing_lines[n], CharSet(current_ignore))
              /\ n = i + 1 => starting_position = detected_position
    /\ pc = "done" => (runs = 1 /\ ~ENABLED AnyKey)

C10_Witness ==
  /\ char_detect
  /\ key = "r"
  /\ pc = "done"
  /\ blocklist = <<":">>
  /\ n = i + 1
  /\ detected_position = 2
  /\ starting_position = 2
  /\ Len(output_lines) = 2

Decodes(string) == unicode_escape_decode(string).ok

\* C11: when the ignore list as typed does not decode, the run does not stop
\* there: one failure is reported for each call that tried to decode it, and
\* the conversion and the prompts use the typed string itself, character by
\* character, as the ignore set (followed by the blocklist); the start
\* position of a line is the first index outside those characters.
C11_VerbatimOnDecodeError ==
  (~Decodes(character_ignore_list) /\ pc \notin {"start", "detect"}) =>
    /\ error_log # <<>>
    /\ \A k \in 1..Len(error_log) : error_log[k] = character_ignore_list
    /\ pc = "prompt" => current_ignore = character_ignore_list \o blocklist
    /\ (Converting \/ pc = "prompt") =>
         Len(error_log) = (IF char_detect THEN 1 ELSE 0) + (IF Converting THEN 1 ELSE 0)
    /\ Converting =>
         /\ ignore_chars = character_ignore_list \o args_blocklist
         /\ (entries # <<>> /\ ~IsBlank(file_listing_lines[n])) =>
              starting_position =
                FirstNotIgnored(file_listing_lines[n],
                                CharSet(character_ignore_list) \cup CharSet(args_blocklist))

C11_Witness ==
  /\ character_ignore_list = <<"\\", "u", "0", "0", "G", "0">>
  /\ pc = "done"
  /\ key = "r"
  /\ Len(error_log) = 2
  /\ file_listing_lines[n] = <<"u", "0", "a", "\n">>
  /\ starting_position = 2
  /\ Last(output_lines) = <<"C", ":", "\\", "a">>

\* C12: every call of the conversion with the same lines and the same args
\* returns the output the first call returned; a call starts from the stack
\* [prefix] and an empty output whatever the call before it left, and no step
\* of a call changes the blocklist or the other args.
C12_SameOutputOnRerun ==
  /\ [](\A k \in 1..Len(run_outputs) : run_outputs[k] = run_outputs[1])
  /\ [](pc = "done" => output_lines = run_outputs[1])
  /\ [][pc = "start" => (path_stack' = <<path_prefix>> /\ output_lines' = <<>>)]_vars
  /\ [][UNCHANGED <<args_vars, args_blocklist>>]_vars

C12_Witness ==
  /\ pc = "done"
  /\ runs = 2
  /\ Len(run_outputs) = 2
  /\ args_blocklist = <<"b">>
  /\ Len(output_lines) = 3
  /\ Len(path_stack) = 3
  /\ output_lines[3] # output_lines[1]

\* C13: a line whose level d is at least 1 and below the stack's depth (its
\* length minus one) leaves the first d elements of the stack as they were,
\* followed by the line's name, however many levels lie in between: the stack
\* has d + 1 elements; from depth 5 a line at level 1 leaves [prefix, name].
C13_UnwindsToLevel ==
  [][(EmitsPath /\ current_directory_level' >= 1
        /\ current_directory_level' < Len(path_stack) - 1) =>
       /\ path_stack' = SubSeq(path_stack, 1, current_directory_level')
                          \o <<file_or_directory_name'>>
       /\ Len(path_stack') = current_directory_level' + 1
       /\ \A k \in 1..current_directory_level' : path_stack'[k] = path_stack[k]
       /\ (Len(path_stack) - 1 = 5 /\ current_directory_level' = 1) =>
            path_stack' = <<path_prefix, file_or_directory_name'>>]_vars

C13_Witness ==
  /\ pc = "loop"
  /\ indent_level = 1
  /\ Len(entries) = 6
  /\ entries[5].level = 5
  /\ Len(output_lines[5]) = Len(path_prefix) + 10
  /\ entries[6].level = 1
  /\ path_stack = <<path_prefix, <<"x">> >>

\* C14: a line whose level is above the stack's depth is processed whatever
\* the gap: the stack after it is the stack before it with the line's name
\* appended, one element longer, nothing popped or moved.
C14_DeeperAppendsOne ==
  /\ [][(EmitsPath /\ current_directory_level' > Len(path_stack) - 1) =>
          /\ path_stack' = Append(path_stack, file_or_directory_name')
          /\ Len(path_stack') = Len(path_stack) + 1]_vars
  /\ []((/\ pc = "loop"
         /\ n < Len(file_listing_lines)
         /\ ~is_skipped(file_listing_lines[n + 1])
         /\ level_of(find_file_or_directory_name_start_position(
                       file_listing_lines[n + 1], ignore_chars), indent_level)
              > Len(path_stack) - 1)
        => ENABLED ProcessLine)

C14_Witness ==
  /\ pc = "loop"
  /\ indent_level = 1
  /\ Len(entries) = 3
  /\ entries[2].level = 2
  /\ entries[3].level = 6
  /\ path_stack = <<path_prefix, <<"a">>, <<"b">>, <<"x">> >>

\* the line without the terminator readlines() left at its end
Content(line) ==
  IF line # <<>> /\ Last(line) = "\n" THEN SubSeq(line, 1, Len(line) - 1) ELSE line

AllIgnored(s) == \A k \in 1..Len(s) : InStr(s[k], ignore_chars)

\* C15: a line that is not blank and has only ignored characters before its
\* terminator is processed like any other: the start position is the length
\* of the line (without the terminator, unless the terminator is ignored as
\* well), the name is empty, the level is that position divided by the indent
\* width, the stack becomes [prefix, ""] and the one path emitted is the
\* prefix followed by the separator and the empty name.
C15_AllIgnoredLineProcessed ==
  (pc = "done" /\ ~IsBlank(TheLine) /\ AllIgnored(Content(TheLine))) =>
    /\ Len(entries) = 1
    /\ starting_position =
         (IF AllIgnored(TheLine) THEN Len(TheLine) ELSE Len(Content(TheLine)))
    /\ file_or_directory_name = <<>>
    /\ current_directory_level = starting_position \div indent_level
    /\ path_stack = <<path_prefix, <<>> >>
    /\ output_lines = <<path_prefix \o path_separator>>

C15_Witness ==
  /\ pc = "done"
  /\ ~IsBlank(TheLine)
  /\ AllIgnored(TheLine)
  /\ Len(TheLine) = 3
  /\ starting_position = 3
  /\ current_directory_level = 3
  /\ path_stack = <<path_prefix, <<>> >>

C15_WitnessTerminated ==
  /\ pc = "done"
  /\ TheLine = <<":", ":", "\n">>
  /\ args_blocklist = <<>>
  /\ starting_position = 2
  /\ output_lines = << <<"C", ":", "\\">> >>

\* C16: [p] at a line of index above 0 is followed by a prompt for a line of a
\* smaller index, whatever blank lines the listing has; [p] at index 0 is
\* followed by a prompt for line 0 again.
C16_StepsBackward ==
  [][(pc = "prompt" /\ key' = "p") =>
       /\ pc' = "prompt"
       /\ IF i > 0 THEN i' < i ELSE i' = 0]_vars

\* C17: [b] at a line that has no stop character leaves the blocklist as it is
\* and is followed by a prompt for a line of a larger index, or by the end of
\* the mode.
C17_BlockWithoutStopCharStepsForward ==
  [][(pc = "prompt" /\ key' = "b" /\ current_char = "None") =>
       /\ blocklist' = blocklist
       /\ \/ pc' = "complete"
          \/ pc' = "prompt" /\ i' > i]_vars

\* C18: whatever keys were pressed, the cursor is between 0 and the number of
\* lines, a prompt shows a line that exists and is not blank, and once the
\* mode has started it is complete exactly when the cursor is the number of
\* lines; otherwise it ends only by [q] or by [r] and the conversion.
C18_CursorInRange ==
  /\ i \in 0..Len(file_listing_lines)
  /\ pc = "prompt" =>
       /\ i < Len(file_listing_lines)
       /\ ~IsBlank(file_listing_lines[i + 1])
  /\ pc # "detect" => (pc = "complete" <=> i = Len(file_listing_lines))
  /\ pc \in {"detect", "prompt", "complete", "quit", "start", "loop", "done"}
  /\ pc = "quit" => key = "q"
  /\ pc \in {"start", "loop", "done"} => key = "r"

C18_Witness ==
  /\ pc = "complete"
  /\ key = "s"
  /\ file_listing_lines = BlankBetween
  /\ i = 3
  /\ blocklist = <<":", "a">>

NoDuplicates(list) == \A j, k \in 1..Len(list) : j # k => list[j] # list[k]

\* C19: the blocklist never holds a character twice nor a character of the
\* decoded base ignore list; [b] leaves it as it is or appends the stop
\* character the prompt showed, which is in neither the base ignore list nor
\* the blocklist; [u] leaves it as it is or removes one entry and adds none;
\* no other key changes it.
C19_BlocklistWellFormed ==
  /\ [](/\ NoDuplicates(blocklist)
        /\ \A k \in 1..Len(blocklist) :
             ~InStr(blocklist[k], parse_unicode_string(character_ignore_list)))
  /\ [][(pc = "prompt" /\ key' = "b") =>
          \/ blocklist' = blocklist
          \/ /\ blocklist' = Append(blocklist, current_char)
             /\ current_char # "None"
             /\ ~InStr(current_char, parse_unicode_string(character_ignore_list))
             /\ ~InStr(current_char, blocklist)]_vars
  /\ [][(pc = "prompt" /\ key' = "u") =>
          \/ blocklist' = blocklist
          \/ \E k \in 1..Len(blocklist) :
               blocklist' = SubSeq(blocklist, 1, k - 1)
                              \o SubSeq(blocklist, k + 1, Len(blocklist))]_vars
  /\ [][(pc = "prompt" /\ key' \notin {"b", "u"}) => blocklist' = blocklist]_vars

C19_Witness ==
  /\ pc = "prompt"
  /\ key = "u"
  /\ blocklist = <<"a">>
  /\ current_char = ":"
  /\ detected_position = 1

\* C20: the name appended for a line, which is the last segment of the path
\* emitted for it, neither starts nor ends with a whitespace character, with
\* or without blocklisted characters removed from it.
C20_NameHasNoOuterWhitespace ==
  LineProcessed =>
    /\ Last(path_stack) = file_or_directory_name
    /\ Trimmed(file_or_directory_name) = file_or_directory_name

====
